---- MODULE Spec2Model ----
(***************************************************************************)
(* A model of flexible_schema: the validation and alignment engine of     *)
(* base.py (Schema._validate_schema, Schema.validate, Schema.align) over  *)
(* the two backend adapters of the package (pyarrow.py, json.py).         *)
(*                                                                         *)
(* SchemaMeta.__new__ maps every field of a class statement with          *)
(* cls.map_type(field).  JSONSchema maps the field's annotation;          *)
(* PyArrowSchema.map_type takes a type and raises ValueError for the      *)
(* field object, so a PyArrowSchema subclass exists only when it declares *)
(* no field, and its schema() raises AttributeError (cls._columns is      *)
(* defined nowhere).  The classes validate and align are called on are    *)
(* those the code can make: JSON-backed declarations, and the             *)
(* PyArrowSchema subclass without fields.                                  *)
(*                                                                         *)
(* A declaration is the ordered sequence of the dataclass fields of a     *)
(* Schema subclass.  A raw schema is a sequence of (name, type) columns,  *)
(* a raw table a sequence of (name, type, data) columns.  The caller      *)
(* holds one raw input (arg), builds it column by column, and calls       *)
(* validate or align on it; last records the outcome of the latest call.  *)
(*                                                                         *)
(* Two further state machines share the module.  ColumnSpec follows one    *)
(* column object (column) of fields.py or columns.py through its construction *)
(* and the attribute assignments made on it.  ClassSpec follows one        *)
(* subclass of Schema, JSONSchema or PyArrowSchema (klass) through its     *)
(* class statement and the construction of its records (rec).  RaceSpec    *)
(* runs align in its two phases (running) beside a second thread that      *)
(* assigns allow_extra_columns.                                            *)
(***************************************************************************)
EXTENDS Naturals, Sequences, FiniteSets

VARIABLES decl, backend, allow_extra_columns, arg, last, column, klass, rec,
          running

vars == <<decl, backend, allow_extra_columns, arg, last, column, klass, rec,
         running>>

\* Largest number of columns of a raw schema or raw table the caller builds.
MaxCols == 3

\* Largest number of item assignments (r[key] = value) made on one record.
MaxItems == 1

----------------------------------------------------------------------------
(* Python values: None and lists.                                          *)

\* An attribute holding None (SchemaValidationError's keyword defaults).
None == [none |-> TRUE, v |-> <<>>]

\* An attribute holding the list l.
Some(l) == [none |-> FALSE, v |-> l]

\* Python truthiness of an attribute that is None or a list.
Truthy(x) == ~x.none /\ x.v # <<>>

\* [s[i].name : i in 1..Len(s)], the names of a sequence of columns or fields.
NamesOf(s) == [i \in 1..Len(s) |-> s[i].name]

\* The set of the elements of a sequence.
Range(s) == {s[i] : i \in 1..Len(s)}

----------------------------------------------------------------------------
(* Declarations: the dataclass fields of a Schema subclass.                *)

Plain(t) == [kind |-> "plain", dtype |-> t]
UnionNone(t) == [kind |-> "union", dtype |-> t]
OptionalOf(t) == [kind |-> "Optional", dtype |-> t]
Field(n, a) == [name |-> n, type |-> a]

\* Column(t, is_optional=opt) and Required(t) given as annotations.
ColumnOf(t, opt) == [kind |-> "Column", dtype |-> t, is_optional |-> opt]
RequiredOf(t) == [kind |-> "Required", dtype |-> t]

\* A field with its default: "MISSING" when the class statement gives none.
FieldWithDefault(n, a, d) == [name |-> n, type |-> a, default |-> d]

\* The annotations a class statement may give a field of python type t.
Annotations(t) ==
    {Plain(t), UnionNone(t), OptionalOf(t), ColumnOf(t, "True"),
     ColumnOf(t, "False"), RequiredOf(t)}

\* class Data: subject_id-like required fields first, then an optional one.
DeclReqReqOpt ==
    << Field("a", Plain("int")), Field("b", Plain("str")),
       Field("c", UnionNone("float")) >>

\* An optional field declared before the required ones (no default given).
DeclOptReqReq ==
    << Field("c", OptionalOf("float")), Field("a", Plain("int")),
       Field("b", Plain("str")) >>

\* An optional field between two required ones.
DeclReqOptReq ==
    << Field("a", Plain("int")), Field("c", UnionNone("float")),
       Field("b", Plain("str")) >>

\* One required field between two optional ones.
DeclOptReqOpt ==
    << Field("b", UnionNone("str")), Field("a", Plain("int")),
       Field("c", OptionalOf("float")) >>

Declarations == {DeclReqReqOpt, DeclOptReqReq, DeclReqOptReq, DeclOptReqOpt}

\* class Data(...): pass, a class statement that declares no field.
DeclEmpty == << >>

Backends == {"pyarrow", "json"}

\* The classes a class statement may derive from: Schema itself ("base")
\* and the two backends.
SchemaBases == {"base"} \cup Backends

\* __abstractmethods__ of a subclass of the base: JSONSchema overrides every
\* abstract method of Schema, PyArrowSchema all but _map_type_internal.
AbstractMethods(B) ==
    CASE B = "json" -> {}
      [] B = "pyarrow" -> {"_map_type_internal"}
      [] B = "base" -> {"_map_type_internal", "schema", "_raw_schema_col_type",
                        "_raw_schema_cols", "_raw_table_schema",
                        "_reorder_raw_table", "_cast_raw_table_column"}

\* Column names a caller may use that no declaration declares.
ExtraNames == {"x", "y"}

DeclaredNames == {"a", "b", "c"}

ColNames == DeclaredNames \cup ExtraNames

----------------------------------------------------------------------------
(* Schema: optional / required classification and type mapping.            *)

\* dataclasses.fields(cls), in declaration order.
fields(D) == D

_is_optional(annotation) ==
    IF annotation.kind = "Optional" THEN TRUE
    ELSE annotation.kind = "union"

_is_required(annotation) == ~_is_optional(annotation)

\* Python types are written by their name ("int", "datetime", "NoneType",
\* "dict"), list[X] as "list[X]", a python str given as a type with its
\* quotes ("'integer'") and a pyarrow DataType object as the call that makes
\* it ("pa.int64()").

\* A Column or Required object given as an annotation, as a type to map.
ColumnObject == "<Column object>"

\* A dataclasses.Field object, as SchemaMeta.__new__ hands it to map_type.
FieldObject == "<Field object>"

\* A plain annotation is the type itself, held here in its dtype; any other
\* annotation that is not optional is returned as the object it is.
_base_type(annotation) ==
    IF annotation.kind = "Optional" THEN annotation.dtype
    ELSE IF _is_optional(annotation) THEN annotation.dtype
    ELSE IF annotation.kind = "plain" THEN annotation.dtype
    ELSE ColumnObject

\* The list types: get_origin(field_type) is list.
ListTypes ==
    {"list[int]", "list[float]", "list[str]", "list[bool]", "list[datetime]",
     "list[dict]"}

\* get_args(field_type)[0] of a list type.
ListItem(t) ==
    CASE t = "list[int]" -> "int"
      [] t = "list[float]" -> "float"
      [] t = "list[str]" -> "str"
      [] t = "list[bool]" -> "bool"
      [] t = "list[datetime]" -> "datetime"
      [] t = "list[dict]" -> "dict"

\* JSONSchema.PYTHON_TO_JSON; the dict {'type': t} is written t.
PYTHON_TO_JSON(t) ==
    CASE t = "int" -> "integer"
      [] t = "float" -> "number"
      [] t = "str" -> "string"
      [] t = "bool" -> "boolean"

\* The keys of PYTHON_TO_JSON.
JsonTableTypes == {"int", "float", "str", "bool"}

\* PyArrowSchema.PYTHON_TO_PYARROW; a pyarrow type is written as its str().
PYTHON_TO_PYARROW(t) ==
    CASE t = "int" -> "int64"
      [] t = "float" -> "float"
      [] t = "str" -> "string"
      [] t = "bool" -> "bool"
      [] t = "datetime" -> "timestamp[us]"

\* The keys of PYTHON_TO_PYARROW.
PyArrowTableTypes == {"int", "float", "str", "bool", "datetime"}

\* Python strings given as a type, and the string each one is.
StrTypes == {"'integer'", "'string'", "'object'"}

StrValue(t) ==
    CASE t = "'integer'" -> "integer"
      [] t = "'string'" -> "string"
      [] t = "'object'" -> "object"

\* {'type': 'array', 'items': items}
JsonArray(items) ==
    CASE items = "integer" -> "array[integer]"
      [] items = "number" -> "array[number]"
      [] items = "string" -> "array[string]"
      [] items = "boolean" -> "array[boolean]"
      [] items = "date-time" -> "array[date-time]"

\* {'type': 'string', 'format': 'date-time'}
JsonDateTime == "date-time"

\* JSONSchema._map_type_internal on a type that is not a list.
JsonScalarType(field_type) ==
    IF field_type = "datetime" THEN JsonDateTime
    ELSE IF field_type \in JsonTableTypes THEN PYTHON_TO_JSON(field_type)
    ELSE IF field_type \in StrTypes THEN StrValue(field_type)
    ELSE "ValueError"

\* What a type mapper raises instead of returning a type.
MapperExceptions == {"ValueError", "NotImplementedError"}

\* JSONSchema._map_type_internal; "ValueError" stands for the raise of the
\* last branch (Unsupported type), which the branch of a list passes on.
\* PyArrowSchema defines no _map_type_internal: the method of Schema raises
\* NotImplementedError.
_map_type_internal(B, field_type) ==
    IF B # "json" THEN "NotImplementedError"
    ELSE IF field_type \in ListTypes
    THEN LET items == JsonScalarType(ListItem(field_type))
         IN IF items = "ValueError" THEN "ValueError" ELSE JsonArray(items)
    ELSE JsonScalarType(field_type)

\* pyarrow DataType objects given as a type, and the type each one is.
PyArrowDataTypes == {"pa.int64()", "pa.float32()", "pa.string()"}

DataTypeValue(t) ==
    CASE t = "pa.int64()" -> "int64"
      [] t = "pa.float32()" -> "float"
      [] t = "pa.string()" -> "string"

\* pa.list_(item)
PyArrowList(item) ==
    CASE item = "int64" -> "list<item: int64>"
      [] item = "float" -> "list<item: float>"
      [] item = "string" -> "list<item: string>"
      [] item = "bool" -> "list<item: bool>"
      [] item = "timestamp[us]" -> "list<item: timestamp[us]>"

\* PyArrowSchema.map_type on a type that is not a list.
PyArrowScalarType(field_type) ==
    IF field_type \in PyArrowTableTypes THEN PYTHON_TO_PYARROW(field_type)
    ELSE IF field_type \in PyArrowDataTypes THEN DataTypeValue(field_type)
    ELSE "ValueError"

\* PyArrowSchema.map_type(field_type): it takes the type itself; any other
\* object, a dataclasses.Field among them, is an unsupported type.
PyArrowSchema_map_type(field_type) ==
    IF field_type \in ListTypes
    THEN LET item == PyArrowScalarType(ListItem(field_type))
         IN IF item = "ValueError" THEN "ValueError" ELSE PyArrowList(item)
    ELSE PyArrowScalarType(field_type)

\* cls.map_type(f) as SchemaMeta.__new__ and schema() call it, with the
\* dataclasses.Field: Schema.map_type, which PyArrowSchema overrides.
map_type(B, f) ==
    IF B = "pyarrow" THEN PyArrowSchema_map_type(FieldObject)
    ELSE _map_type_internal(B, _base_type(f.type))

\* SchemaMeta.__new__ maps every field: the class statement raises when
\* map_type raises for one of them.
ClassStatementRaises(B, D) ==
    \E i \in 1..Len(D) : map_type(B, D[i]) \in MapperExceptions

\* The exception of the first field map_type raises for.
ClassStatementException(B, D) ==
    LET raises(i) == map_type(B, D[i]) \in MapperExceptions
        first == CHOOSE i \in 1..Len(D) :
                    raises(i) /\ \A j \in 1..(i - 1) : ~raises(j)
    IN map_type(B, D[first])

\* A faulty view: every field is listed as optional.
optional_columns_AllFields(D) == NamesOf(fields(D))

optional_columns(D) ==
    LET opt(f) == _is_optional(f.type)
    IN NamesOf(SelectSeq(fields(D), opt))

required_columns(D) ==
    LET req(f) == ~_is_optional(f.type)
    IN NamesOf(SelectSeq(fields(D), req))

columns(D) == required_columns(D) \o optional_columns(D)

\* getattr(cls, f"{col}_dtype"), set by SchemaMeta from map_type.
column_type(B, D, col) ==
    LET f == CHOOSE g \in Range(fields(D)) : g.name = col
    IN map_type(B, f)

----------------------------------------------------------------------------
(* Backend adapters on raw schemas and raw tables.                         *)

_raw_schema_cols(schema) == NamesOf(schema)

_raw_schema_col_type(schema, col) ==
    (CHOOSE c \in Range(schema) : c.name = col).type

\* pyarrow: table.schema.  json: the python type of every value, mapped.
_raw_table_schema(B, table) ==
    [i \in 1..Len(table) |->
        [name |-> table[i].name,
         type |-> IF B = "json" THEN _map_type_internal(B, table[i].type)
                  ELSE table[i].type]]

\* json: _map_type_internal raises ValueError for the type of some value.
RawTableSchemaRaises(B, table) ==
    /\ B = "json"
    /\ \E i \in 1..Len(table) :
          _map_type_internal(B, table[i].type) = "ValueError"

_raw_table_cols(B, tbl) == _raw_schema_cols(_raw_table_schema(B, tbl))

\* A faulty projection: the first name of the order is skipped.
_reorder_raw_table_SkipsFirst(tbl, tbl_order) ==
    [i \in 1..(Len(tbl_order) - 1) |->
        CHOOSE c \in Range(tbl) : c.name = tbl_order[i + 1]]

\* tbl.select(order) / {k: tbl[k] for k in order}: a projection.
_reorder_raw_table(tbl, tbl_order) ==
    [i \in 1..Len(tbl_order) |->
        CHOOSE c \in Range(tbl) : c.name = tbl_order[i]]

\* Whether the backend accepts the cast of one column: pyarrow refuses a
\* string column whose values do not parse ("odd"); json supports no cast.
CastAccepted(B, col, want_type) == B = "pyarrow" /\ col.data # "odd"

\* tbl.set_column(index of col, col, tbl.column(col).cast(want_type)).
_cast_raw_table_column(tbl, col, want_type) ==
    [i \in 1..Len(tbl) |->
        IF tbl[i].name = col
        THEN [name |-> col, type |-> want_type, data |-> "plain"]
        ELSE tbl[i]]

----------------------------------------------------------------------------
(* Validation engine.                                                      *)

_disallowed_extra_cols(B, D, allow, schema) ==
    IF allow THEN <<>>
    ELSE LET undeclared(col) == col \notin Range(columns(D))
         IN SelectSeq(_raw_schema_cols(schema), undeclared)

\* A faulty _missing_req_cols: stops at the first missing column.
_missing_req_cols_FirstOnly(B, D, schema) ==
    LET absent(col) == col \notin Range(_raw_schema_cols(schema))
        all == SelectSeq(required_columns(D), absent)
    IN IF all = <<>> THEN <<>> ELSE <<Head(all)>>

\* A faulty _missing_req_cols: expects the optional columns too.
_missing_req_cols_AllColumns(B, D, schema) ==
    LET absent(col) == col \notin Range(_raw_schema_cols(schema))
    IN SelectSeq(columns(D), absent)

_missing_req_cols(B, D, schema) ==
    LET absent(col) == col \notin Range(_raw_schema_cols(schema))
    IN SelectSeq(required_columns(D), absent)

\* A faulty _mistyped_cols: walks the fields in declaration order.
_mistyped_cols_DeclOrder(B, D, schema) ==
    LET raw_cols == Range(_raw_schema_cols(schema))
        bad(col) == col \in raw_cols
                    /\ column_type(B, D, col) # _raw_schema_col_type(schema, col)
        cols == SelectSeq(NamesOf(fields(D)), bad)
    IN [i \in 1..Len(cols) |->
          <<cols[i], column_type(B, D, cols[i]),
            _raw_schema_col_type(schema, cols[i])>>]

_mistyped_cols(B, D, schema) ==
    LET raw_cols == Range(_raw_schema_cols(schema))
        bad(col) == col \in raw_cols
                    /\ column_type(B, D, col) # _raw_schema_col_type(schema, col)
        cols == SelectSeq(columns(D), bad)
    IN [i \in 1..Len(cols) |->
          <<cols[i], column_type(B, D, cols[i]),
            _raw_schema_col_type(schema, cols[i])>>]

\* An outcome of a call: the exception raised ("none": it returned), the
\* three attributes of a SchemaValidationError, and the table returned.
Returned(t) ==
    [exc |-> "none", disallowed_extra_cols |-> None,
     missing_req_cols |-> None, mistyped_cols |-> None, ret |-> t]

\* SchemaValidationError(disallowed_extra_cols=, missing_req_cols=, mistyped_cols=).
SchemaValidationError(extra, missing, mistyped) ==
    [exc |-> "SchemaValidationError", disallowed_extra_cols |-> extra,
     missing_req_cols |-> missing, mistyped_cols |-> mistyped, ret |-> None]

\* An exception that carries no column list.
Raised(e) ==
    [exc |-> e, disallowed_extra_cols |-> None,
     missing_req_cols |-> None, mistyped_cols |-> None, ret |-> None]

\* A faulty raise condition: the mistyped list is not looked at.
SchemaInvalid_IgnoresMistyped(extra, missing, mistyped) ==
    extra # <<>> \/ missing # <<>>

\* The condition of the raise of _validate_schema.
SchemaInvalid(extra, missing, mistyped) ==
    extra # <<>> \/ missing # <<>> \/ mistyped # <<>>

_validate_schema(B, D, allow, schema) ==
    LET disallowed_extra_cols == _disallowed_extra_cols(B, D, allow, schema)
        missing_req_cols == _missing_req_cols(B, D, schema)
        mistyped_cols == _mistyped_cols(B, D, schema)
    IN IF SchemaInvalid(disallowed_extra_cols, missing_req_cols, mistyped_cols)
       THEN SchemaValidationError(Some(disallowed_extra_cols),
                                  Some(missing_req_cols), Some(mistyped_cols))
       ELSE Returned(None)

\* A faulty schema(): every declared column is listed under 'required'.
JsonSchemaOf_AllRequired(D, allow) ==
    [properties |-> [i \in 1..Len(fields(D)) |->
                        [name |-> fields(D)[i].name,
                         type |-> map_type("json", fields(D)[i])]],
     required |-> NamesOf(fields(D)),
     additionalProperties |-> allow]

\* JSONSchema.schema(): properties, required, additionalProperties.
JsonSchemaOf(D, allow) ==
    [properties |-> [i \in 1..Len(fields(D)) |->
                        [name |-> fields(D)[i].name,
                         type |-> map_type("json", fields(D)[i])]],
     required |-> required_columns(D),
     additionalProperties |-> allow]

\* jsonschema's type keyword on a python value: an int is a number too
\* (the float values of the blobs are not whole numbers), a bool is neither,
\* and the format of a date-time string is not asserted.
JsonTypeAccepts(json_type, py_type) ==
    CASE json_type = "integer" -> py_type = "int"
      [] json_type = "number" -> py_type \in {"int", "float"}
      [] json_type = "string" -> py_type = "str"
      [] json_type = "boolean" -> py_type = "bool"
      [] json_type = "date-time" -> py_type = "str"

\* jsonschema.validate(instance=table, schema=cls.schema()) accepts the blob.
JsonInstanceValid(schema, table) ==
    /\ \A r \in Range(schema.required) : r \in Range(NamesOf(table))
    /\ \A c \in Range(table) :
          \/ \E p \in Range(schema.properties) :
                p.name = c.name /\ JsonTypeAccepts(p.type, c.type)
          \/ /\ c.name \notin Range(NamesOf(schema.properties))
             /\ schema.additionalProperties

_validate_table(B, D, allow, table) ==
    IF B = "json"
    THEN IF JsonInstanceValid(JsonSchemaOf(D, allow), table)
         THEN Returned(None)
         ELSE Raised("jsonschema.ValidationError")
    ELSE _validate_schema(B, D, allow, _raw_table_schema(B, table))

\* PyArrowSchema.schema() calls cls._columns(), which no class defines:
\* AttributeError.  JSONSchema.schema() returns its document.
SchemaRaises(B) == B = "pyarrow"

\* The dispatch of validate.  JSONSchema._is_raw_schema: the argument is a
\* JSON object schema.  Schema._is_raw_schema, which a PyArrowSchema class
\* runs, is isinstance(arg, type(cls.schema())): the call of schema() raises.
_is_raw_schema(B, a) ==
    IF SchemaRaises(B) THEN "AttributeError"
    ELSE IF a.kind = "schema" THEN "True"
    ELSE "False"

\* cls._is_raw_schema(arg) is evaluated outside the two try blocks: what it
\* raises leaves validate as it is.
validate(B, D, allow, a) ==
    IF _is_raw_schema(B, a) = "AttributeError" THEN Raised("AttributeError")
    ELSE IF _is_raw_schema(B, a) = "True"
    THEN LET r == _validate_schema(B, D, allow, a.cols)
         IN IF r.exc \in {"none", "SchemaValidationError"} THEN r
            ELSE Raised("SchemaValidationError")
    ELSE LET r == _validate_table(B, D, allow, a.cols)
         IN IF r.exc \in {"none", "TableValidationError", "SchemaValidationError"}
            THEN r
            ELSE Raised("TableValidationError")

----------------------------------------------------------------------------
(* Alignment engine.                                                       *)

\* The loop over fields(cls): every required field, and every other field
\* the table has, in declaration order.
RECURSIVE FieldOrder(_, _)
FieldOrder(fs, table_cols) ==
    IF fs = <<>> THEN <<>>
    ELSE LET f == Head(fs)
             rest == FieldOrder(Tail(fs), table_cols)
         IN IF _is_required(f.type) \/ f.name \in Range(table_cols)
            THEN <<f.name>> \o rest
            ELSE rest

\* A faulty out_order: the undeclared columns are never appended.
AlignOrder_DropsExtras(B, D, allow, tbl) ==
    FieldOrder(fields(D), _raw_table_cols(B, tbl))

\* A faulty out_order: the undeclared columns are appended last first.
AlignOrder_ExtrasReversed(B, D, allow, tbl) ==
    LET table_cols == _raw_table_cols(B, tbl)
        out_order == FieldOrder(fields(D), table_cols)
        unplaced(c) == c \notin Range(out_order)
        extras == SelectSeq(table_cols, unplaced)
    IN IF allow
       THEN out_order \o [i \in 1..Len(extras) |-> extras[Len(extras) + 1 - i]]
       ELSE out_order

\* The out_order of _align_col_order.
AlignOrder(B, D, allow, tbl) ==
    LET table_cols == _raw_table_cols(B, tbl)
        out_order == FieldOrder(fields(D), table_cols)
        unplaced(c) == c \notin Range(out_order)
    IN IF allow THEN out_order \o SelectSeq(table_cols, unplaced)
       ELSE out_order

_align_col_order(B, D, allow, tbl) ==
    _reorder_raw_table(tbl, AlignOrder(B, D, allow, tbl))

\* The loop of _cast_raw_table: [ok |-> FALSE] when a cast raises.
RECURSIVE _cast_raw_table(_, _, _)
_cast_raw_table(B, tbl, mistyped_cols) ==
    IF mistyped_cols = <<>> THEN [ok |-> TRUE, tbl |-> tbl]
    ELSE LET m == Head(mistyped_cols)
             col == CHOOSE c \in Range(tbl) : c.name = m[1]
         IN IF CastAccepted(B, col, m[2])
            THEN _cast_raw_table(B, _cast_raw_table_column(tbl, m[1], m[2]),
                                 Tail(mistyped_cols))
            ELSE [ok |-> FALSE, tbl |-> tbl]

\* A faulty re-raise: only the missing required columns are passed on.
AlignReraise_MissingOnly(e) ==
    SchemaValidationError(None, e.missing_req_cols, None)

\* The error align raises for a missing required or disallowed extra column.
AlignReraise(e) ==
    SchemaValidationError(e.disallowed_extra_cols, e.missing_req_cols, None)

\* The error align raises when a cast is rejected.
AlignCastError(mistyped_cols) ==
    SchemaValidationError(None, None, Some(mistyped_cols))

\* What align does with the outcome c of _cast_raw_table.
CastOutcome(c, mistyped_cols) ==
    IF c.ok THEN Returned(Some(c.tbl)) ELSE AlignCastError(mistyped_cols)

\* The dict given to align as a JSON blob: a blob that is itself a JSON
\* object schema has the keys 'type', a str, and 'properties', a dict.
AsTable(a) ==
    IF a.kind = "schema"
    THEN << [name |-> "type", type |-> "str", data |-> "plain"],
            [name |-> "properties", type |-> "dict", data |-> "plain"] >>
    ELSE a.cols

\* The except clause of align, given the outcome e of validate(tbl): either
\* the call ends there with an error (raised), or it goes on with the
\* mistyped columns validate reported.  Only the two validation errors are
\* caught: any other exception of validate leaves align as it is.
AlignCaught(e) ==
    LET uncorrectable == e.exc = "SchemaValidationError"
                         /\ (Truthy(e.missing_req_cols)
                             \/ Truthy(e.disallowed_extra_cols))
        mistyped_cols == IF e.exc = "SchemaValidationError"
                            /\ Truthy(e.mistyped_cols)
                         THEN e.mistyped_cols.v ELSE <<>>
    IN IF uncorrectable
       THEN [raised |-> TRUE, out |-> AlignReraise(e), mistyped_cols |-> <<>>]
       ELSE IF e.exc = "SchemaValidationError" /\ mistyped_cols = <<>>
       THEN [raised |-> TRUE, out |-> e, mistyped_cols |-> <<>>]
       ELSE IF e.exc \notin {"none", "SchemaValidationError"}
       THEN [raised |-> TRUE, out |-> e, mistyped_cols |-> <<>>]
       ELSE [raised |-> FALSE, out |-> e, mistyped_cols |-> mistyped_cols]

\* The try block of align: validate(tbl) and the handling of its error.
AlignValidate(B, D, allow, a) == AlignCaught(validate(B, D, allow, a))

\* The casts of align on the reordered table.
AlignCast(B, ordered, mistyped_cols) ==
    IF mistyped_cols = <<>> THEN Returned(Some(ordered))
    ELSE CastOutcome(_cast_raw_table(B, ordered, mistyped_cols), mistyped_cols)

\* The rest of align: _align_col_order, which reads the switch again, and
\* the casts.
AlignReorderCast(B, D, allow, a, mistyped_cols) ==
    IF RawTableSchemaRaises(B, AsTable(a)) THEN Raised("ValueError")
    ELSE AlignCast(B, _align_col_order(B, D, allow, AsTable(a)), mistyped_cols)

\* align after its try block, v being what the try block left.
AlignAfter(B, D, allow, a, v) ==
    IF v.raised THEN v.out
    ELSE AlignReorderCast(B, D, allow, a, v.mistyped_cols)

\* align run as one step, the switch read having one value throughout.
align(B, D, allow, a) ==
    AlignAfter(B, D, allow, a, AlignValidate(B, D, allow, a))

----------------------------------------------------------------------------
(* The caller: builds a raw input and calls validate and align.            *)

\* The raw types the caller gives a column of a raw schema or of a pyarrow
\* table: under a declared name the type every declaration maps it to and
\* one other type, under an undeclared name a string.
InputTypes(B, n) ==
    IF B = "json"
    THEN CASE n = "a" -> {"integer", "string"}
           [] n = "b" -> {"string", "integer"}
           [] n = "c" -> {"number", "string"}
           [] OTHER -> {"string"}
    ELSE CASE n = "a" -> {"int64", "string"}
           [] n = "b" -> {"string", "int64"}
           [] n = "c" -> {"float", "string"}
           [] OTHER -> {"string"}

\* The python types of the values the caller puts in a JSON blob; under an
\* undeclared key a string or None.
InputValueTypes(n) ==
    CASE n = "a" -> {"int", "str"}
      [] n = "b" -> {"str", "int"}
      [] n = "c" -> {"float", "int", "str"}
      [] OTHER -> {"str", "NoneType"}

\* The columns a caller can add under a name: in a raw schema a typed
\* column; in a pyarrow table a typed column with its values, where a
\* string column given for a numeric field may hold values that cast to
\* nothing ("odd"); in a JSON blob a value of a python type.
ColumnsFor(B, kind, n) ==
    IF kind = "schema"
    THEN {[name |-> n, type |-> t] : t \in InputTypes(B, n)}
    ELSE IF B = "json"
    THEN {[name |-> n, type |-> t, data |-> "plain"] : t \in InputValueTypes(n)}
    ELSE {[name |-> n, type |-> t, data |-> "plain"] : t \in InputTypes(B, n)}
         \cup (IF n \in {"a", "c"}
               THEN {[name |-> n, type |-> "string", data |-> "odd"]}
               ELSE {})

\* No call has been made on the input the caller holds.
NoCall ==
    [op |-> "none", input |-> <<>>, kind |-> "none", allow |-> TRUE,
     removed |-> "", again |-> "no", out |-> Returned(None)]

\* No column object: nothing has been constructed, or the constructor raised.
NoColumn ==
    [made |-> FALSE, module |-> "none", cls |-> "none",
     dtype |-> "none", default |-> "None", _is_optional |-> "None",
     _nullable |-> "None", _frozen |-> FALSE,
     args |-> [dtype |-> "none", default |-> "None", nullable |-> "None",
               is_optional |-> "unset"],
     built |-> [dtype |-> "none", is_optional |-> "None", nullable |-> "None"],
     op |-> "none", value |-> "none", exc |-> "none"]

\* No Schema subclass has been defined; no record has been constructed.
NoClass ==
    [made |-> FALSE, exc |-> "none", fields |-> <<>>, required |-> <<>>,
     optional |-> <<>>, dtypes |-> <<>>, abstract |-> {}]

NoRecord ==
    [made |-> FALSE, exc |-> "none", kwargs |-> <<>>, allow |-> TRUE,
     named |-> {}, dict |-> {}, called |-> FALSE, to_dict |-> {},
     sets |-> <<>>]

\* No align call is in progress.
NoAlign ==
    [active |-> FALSE, tbl |-> <<>>, allow |-> TRUE, mistyped_cols |-> <<>>]

\* The classes the caller works with: those whose class statement
\* completes, with three fields or with none.
Init ==
    /\ backend \in Backends
    /\ decl \in Declarations \cup {DeclEmpty}
    /\ ~ClassStatementRaises(backend, decl)
    /\ allow_extra_columns \in BOOLEAN
    /\ arg = [kind |-> "schema", cols |-> <<>>]
    /\ last = NoCall
    /\ column = NoColumn
    /\ klass = NoClass
    /\ rec = NoRecord
    /\ running = NoAlign

\* The caller starts a new raw schema or a new raw table.
NewInput ==
    /\ \E k \in {"schema", "table"} : arg' = [kind |-> k, cols |-> <<>>]
    /\ last' = NoCall
    /\ UNCHANGED <<decl, backend, allow_extra_columns, column, klass, rec, running>>

\* The caller appends a column to the input it is building.
AddColumn ==
    /\ Len(arg.cols) < MaxCols
    /\ \E n \in ColNames \ Range(NamesOf(arg.cols)) :
          \E c \in ColumnsFor(backend, arg.kind, n) :
             arg' = [arg EXCEPT !.cols = Append(@, c)]
    /\ last' = NoCall
    /\ UNCHANGED <<decl, backend, allow_extra_columns, column, klass, rec, running>>

\* cls.allow_extra_columns = v
SetAllowExtraColumns ==
    /\ allow_extra_columns' = ~allow_extra_columns
    /\ UNCHANGED <<decl, backend, arg, last, column, klass, rec, running>>

\* cls.validate(arg)
Validate ==
    /\ last' = [op |-> "validate", input |-> arg.cols, kind |-> arg.kind,
                allow |-> allow_extra_columns, removed |-> "", again |-> "no",
                out |-> validate(backend, decl, allow_extra_columns, arg)]
    /\ UNCHANGED <<decl, backend, allow_extra_columns, arg, column, klass, rec, running>>

\* cls.validate(cls.schema()) on a JSON-backed declaration: the raw schema
\* the caller holds is the document schema() returns, whose columns are
\* its 'properties'.
ValidateOwnSchema ==
    /\ backend = "json"
    /\ LET doc == JsonSchemaOf(decl, allow_extra_columns)
           own == [kind |-> "schema", cols |-> doc.properties]
       IN /\ arg' = own
          /\ last' = [op |-> "validate", input |-> own.cols, kind |-> own.kind,
                      allow |-> allow_extra_columns, removed |-> "",
                      again |-> "no",
                      out |-> validate(backend, decl, allow_extra_columns, own)]
    /\ UNCHANGED <<decl, backend, allow_extra_columns, column, klass, rec, running>>

\* The caller removes one required column from a raw schema that has just
\* validated, and validates what is left.
ValidateWithout ==
    /\ last.op = "validate" /\ last.kind = "schema" /\ last.out.exc = "none"
    /\ last.input = arg.cols /\ last.allow = allow_extra_columns
    /\ \E c \in Range(required_columns(decl)) \cap Range(NamesOf(arg.cols)) :
          LET keep(col) == col.name # c
              rest == [kind |-> arg.kind, cols |-> SelectSeq(arg.cols, keep)]
          IN /\ arg' = rest
             /\ last' = [op |-> "validate", input |-> rest.cols,
                         kind |-> rest.kind, allow |-> allow_extra_columns,
                         removed |-> c, again |-> "no",
                         out |-> validate(backend, decl, allow_extra_columns, rest)]
    /\ UNCHANGED <<decl, backend, allow_extra_columns, column, klass, rec, running>>

\* Whether the table the caller holds is the result of the align call just
\* made under the same allow_extra_columns, and whether that call changed
\* the table it was given ("changed") or returned it as it was ("same").
Realigned ==
    IF /\ last.op = "align" /\ last.out.exc = "none"
       /\ last.allow = allow_extra_columns /\ last.out.ret = Some(arg.cols)
    THEN IF last.input # arg.cols THEN "changed" ELSE "same"
    ELSE "no"

\* tbl = cls.align(tbl): on a failure the caller keeps its table.  The
\* table may be a dict that is itself a JSON object schema.
Align ==
    /\ LET r == align(backend, decl, allow_extra_columns, arg)
       IN /\ last' = [op |-> "align", input |-> arg.cols, kind |-> arg.kind,
                      allow |-> allow_extra_columns, removed |-> "",
                      again |-> Realigned, out |-> r]
          /\ arg' = IF r.exc = "none" THEN [arg EXCEPT !.cols = r.ret.v] ELSE arg
    /\ UNCHANGED <<decl, backend, allow_extra_columns, column, klass, rec, running>>

Next ==
    \/ NewInput
    \/ AddColumn
    \/ SetAllowExtraColumns
    \/ Validate
    \/ ValidateWithout
    \/ ValidateOwnSchema
    \/ Align

Spec == Init /\ [][Next]_vars

----------------------------------------------------------------------------
(* Properties of validate and align, stated on the outcome of the latest   *)
(* call (last) and the input it was given (last.input, last.allow).        *)

\* The list an attribute holds, None read as the empty list.
ListOf(x) == IF x.none THEN <<>> ELSE x.v

\* The raw schema of the input of the latest call: the schema itself, or
\* the schema derived from the table.
LastSchema ==
    IF last.kind = "table" THEN _raw_table_schema(backend, last.input)
    ELSE last.input

\* The input of the latest call as the argument of validate.
LastTable == [kind |-> last.kind, cols |-> last.input]

DeclNames == {decl[i].name : i \in 1..Len(decl)}

\* The required fields: those declared with a plain type.
RequiredNames == {decl[i].name : i \in {j \in 1..Len(decl) : decl[j].type.kind = "plain"}}

InputNames == {last.input[i].name : i \in 1..Len(last.input)}

\* The position of a declared name in the declaration.
DeclIndex(n) == CHOOSE i \in 1..Len(decl) : decl[i].name = n

\* The position of a declared name in columns(): required before optional.
ColumnsRank(n) == (IF n \in RequiredNames THEN 0 ELSE Len(decl)) + DeclIndex(n)

\* The names of s are listed by increasing declaration position.
InDeclOrder(s) == \A i, j \in 1..Len(s) : i < j => DeclIndex(s[i]) < DeclIndex(s[j])

\* The undeclared column names of the input, in the order of the input.
Undeclared ==
    LET extra(n) == n \notin DeclNames
    IN SelectSeq(NamesOf(last.input), extra)

\* The required names, and the optional names the input has, in declaration order.
RequiredInDeclOrder ==
    LET req(n) == n \in RequiredNames
    IN SelectSeq(NamesOf(decl), req)

OptionalPresentInDeclOrder ==
    LET opt(n) == n \notin RequiredNames /\ n \in InputNames
    IN SelectSeq(NamesOf(decl), opt)

\* The three lists of the engine for the schema of the latest input.
LastExtra == _disallowed_extra_cols(backend, decl, last.allow, LastSchema)
LastMissing == _missing_req_cols(backend, decl, LastSchema)
LastMistyped == _mistyped_cols(backend, decl, LastSchema)
LastAnyList == LastExtra # <<>> \/ LastMissing # <<>> \/ LastMistyped # <<>>

\* The error carries exactly the three lists of the engine.
CarriesAllLists(out) ==
    /\ out.disallowed_extra_cols = Some(LastExtra)
    /\ out.missing_req_cols = Some(LastMissing)
    /\ out.mistyped_cols = Some(LastMistyped)

\* The column of the input of the latest call with name n.
InputColumn(n) == CHOOSE c \in Range(last.input) : c.name = n

\* The outcome of _validate_schema on the raw schema of the latest call.
LastValidateSchema == _validate_schema(backend, decl, last.allow, last.input)

\* validate got as far as its dispatch: schema() did not raise.
Dispatched == last.out.exc # "AttributeError"

\* C1: _validate_schema on a raw schema raises SchemaValidationError exactly
\* when one of the three lists computed for the schema is non-empty, the
\* error then carries all three lists, and otherwise the call returns; a
\* validate call that reaches it has that outcome.
C1_RaisesIffAnyListNonEmpty ==
    (last.op = "validate" /\ last.kind = "schema") =>
        /\ LastValidateSchema.exc =
              (IF LastAnyList THEN "SchemaValidationError" ELSE "none")
        /\ LastAnyList => CarriesAllLists(LastValidateSchema)
        /\ Dispatched => last.out = LastValidateSchema

\* A raw schema was rejected with all three lists non-empty in one error.
C1_Witness ==
    /\ last.op = "validate" /\ last.kind = "schema"
    /\ last.out.exc = "SchemaValidationError"
    /\ Truthy(last.out.disallowed_extra_cols)
    /\ Truthy(last.out.missing_req_cols)
    /\ Truthy(last.out.mistyped_cols)

\* C2: removing one required column c from a raw schema that validates
\* makes validate fail with missing_req_cols = [c] and the two other lists
\* empty; in general missing_req_cols is exactly the required columns of
\* the declaration absent from the raw schema, in declaration order.
C2_MissingRequired ==
    (last.op = "validate" /\ last.kind = "schema") =>
        /\ last.removed # "" =>
              /\ last.out.exc = "SchemaValidationError"
              /\ last.out.missing_req_cols = Some(<<last.removed>>)
              /\ last.out.disallowed_extra_cols = Some(<<>>)
              /\ last.out.mistyped_cols = Some(<<>>)
        /\ last.out.exc = "SchemaValidationError" =>
              /\ ~last.out.missing_req_cols.none
              /\ Range(last.out.missing_req_cols.v) = RequiredNames \ InputNames
              /\ InDeclOrder(last.out.missing_req_cols.v)
        /\ last.out.exc = "none" => RequiredNames \subseteq InputNames

\* A required column was removed from a validated raw schema that still
\* holds another column, and the rest was validated.
C2_Witness ==
    /\ last.op = "validate" /\ last.kind = "schema"
    /\ last.removed \in RequiredNames
    /\ Len(last.input) >= 2
    /\ last.out.exc = "SchemaValidationError"

\* C3: with allow_extra_columns false and an undeclared column in the
\* input (raw schema or raw table), validate and align fail with an error
\* whose disallowed_extra_cols is exactly the undeclared names of the
\* input, whether or not the other columns are valid; with
\* allow_extra_columns true the list is always empty.
C3_DisallowedExtra ==
    (last.op \in {"validate", "align"}) =>
        /\ (~last.allow /\ Undeclared # <<>>) =>
              /\ last.out.exc # "none"
              /\ last.out.disallowed_extra_cols = Some(Undeclared)
        /\ last.allow => ListOf(last.out.disallowed_extra_cols) = <<>>

\* C4: the mistyped list of a validation is exactly the triples (name,
\* declared mapped type, raw type) of the columns both declared and present
\* whose types differ, in the order of columns(); an absent declared column
\* and an undeclared column are never in it.
C4_Mistyped ==
    LET differs(n) == /\ n \in DeclNames /\ n \in InputNames
                      /\ column_type(backend, decl, n)
                            # _raw_schema_col_type(LastSchema, n)
    IN /\ (last.op = "validate" /\ last.out.exc = "SchemaValidationError") =>
            LET m == last.out.mistyped_cols.v
            IN /\ ~last.out.mistyped_cols.none
               /\ {m[i][1] : i \in 1..Len(m)} = {n \in ColNames : differs(n)}
               /\ \A i \in 1..Len(m) :
                     m[i] = <<m[i][1], column_type(backend, decl, m[i][1]),
                              _raw_schema_col_type(LastSchema, m[i][1])>>
               /\ \A i, j \in 1..Len(m) :
                     i < j => ColumnsRank(m[i][1]) < ColumnsRank(m[j][1])
       /\ (last.op = "validate" /\ last.out.exc = "none"
           /\ last.kind = "schema") =>
            \A n \in ColNames : ~differs(n)

\* Two mistyped columns were reported for an input that also has an
\* undeclared column and lacks a declared optional column.
C4_Witness ==
    /\ last.op = "validate" /\ last.out.exc = "SchemaValidationError"
    /\ Len(ListOf(last.out.mistyped_cols)) = 2
    /\ Undeclared # <<>>
    /\ \E n \in DeclNames \ RequiredNames : n \notin InputNames

\* The raw schema of the latest call has every required column, only
\* declared columns, and each with the declared mapped type.
Conforms ==
    /\ RequiredNames \subseteq InputNames
    /\ \A i \in 1..Len(last.input) :
          /\ last.input[i].name \in DeclNames
          /\ last.input[i].type = column_type(backend, decl, last.input[i].name)

\* C5: a raw schema with all required columns, any subset of the optional
\* ones, each with the declared mapped type, and no undeclared column
\* passes _validate_schema, whatever the order of its columns; a validate
\* call that reaches it returns.
C5_ConformingValidates ==
    (last.op = "validate" /\ last.kind = "schema" /\ Conforms) =>
        /\ LastValidateSchema.exc = "none"
        /\ Dispatched => last.out.exc = "none"

\* A conforming raw schema, not in declaration order and without one of the
\* optional columns, was validated with extra columns disallowed.
C5_Witness ==
    /\ last.op = "validate" /\ last.kind = "schema" /\ Conforms
    /\ ~last.allow /\ last.out.exc = "none"
    /\ ~InDeclOrder(NamesOf(last.input))
    /\ \E n \in DeclNames \ RequiredNames : n \notin InputNames

\* C6: validate on a raw table whose derived schema has a missing, extra
\* or mistyped column raises TableValidationError, not
\* SchemaValidationError, and the error carries the three lists of
\* validate_schema for the derived schema.
C6_TableErrorLists ==
    (last.op = "validate" /\ last.kind = "table" /\ LastAnyList) =>
        /\ last.out.exc = "TableValidationError"
        /\ CarriesAllLists(last.out)

\* C7 as stated: when align fails because validation reported a missing
\* required or a disallowed extra column, its error has the same three
\* lists as the error of validate on the same table, and the table is
\* neither reordered nor cast.
C7_Original ==
    (last.op = "align") =>
        LET v == validate(backend, decl, last.allow, LastTable)
        IN (Truthy(v.missing_req_cols) \/ Truthy(v.disallowed_extra_cols)) =>
              /\ last.out.exc = v.exc
              /\ ListOf(last.out.disallowed_extra_cols) = ListOf(v.disallowed_extra_cols)
              /\ ListOf(last.out.missing_req_cols) = ListOf(v.missing_req_cols)
              /\ ListOf(last.out.mistyped_cols) = ListOf(v.mistyped_cols)
              /\ last.out.ret = None
              /\ arg.cols = last.input

\* C7, amended: the error of align has the disallowed-extra and the
\* missing-required list of the error of validate, and its mistyped list is
\* unset even when validate reported mistyped columns; a
\* TableValidationError is raised again as it is; the table is neither
\* reordered nor cast.
C7_AlignReraises ==
    (last.op = "align") =>
        LET v == validate(backend, decl, last.allow, LastTable)
        IN /\ (v.exc = "SchemaValidationError"
               /\ (Truthy(v.missing_req_cols) \/ Truthy(v.disallowed_extra_cols))) =>
                 /\ last.out.exc = "SchemaValidationError"
                 /\ last.out.disallowed_extra_cols = v.disallowed_extra_cols
                 /\ last.out.missing_req_cols = v.missing_req_cols
                 /\ last.out.mistyped_cols = None
                 /\ last.out.ret = None
                 /\ arg.cols = last.input
           /\ v.exc = "TableValidationError" =>
                 /\ last.out = v
                 /\ arg.cols = last.input

\* align failed on a table with a disallowed extra column, a missing
\* required column and a mistyped column.
C7_Witness ==
    /\ last.op = "align" /\ last.out.exc = "SchemaValidationError"
    /\ Truthy(last.out.disallowed_extra_cols)
    /\ Truthy(last.out.missing_req_cols)
    /\ LastMistyped # <<>>

\* C8: the column order of a table align returns is the required columns
\* in declaration order, then the optional columns present in the input in
\* declaration order, then, if extras are allowed, the undeclared columns
\* of the input in their original order.
C8_AlignOrder ==
    (last.op = "align" /\ last.out.exc = "none") =>
        NamesOf(last.out.ret.v) =
            RequiredInDeclOrder \o OptionalPresentInDeclOrder
                \o (IF last.allow THEN Undeclared ELSE <<>>)

\* C9: align is idempotent: aligning the table a successful align returned
\* returns that same table (same column order, types and values).
C9_AlignIdempotent ==
    (last.op = "align" /\ last.again # "no") =>
        /\ last.out.exc = "none"
        /\ last.out.ret = Some(last.input)

\* The result of an align that changed its three-column input was aligned
\* again.
C9_Witness ==
    /\ last.op = "align" /\ last.again = "changed"
    /\ Len(last.input) = 3
    /\ last.out.exc = "none"

\* The column names of the table the latest align call returned.
ReturnedNames == {last.out.ret.v[i].name : i \in 1..Len(last.out.ret.v)}

\* C11: whenever align returns a table, the set of column names of the
\* result equals the set of column names of the table it was given: no
\* column is dropped and none is synthesized.
C11_AlignKeepsColumnSet ==
    (last.op = "align" /\ last.out.exc = "none") =>
        /\ ReturnedNames = InputNames
        /\ Len(last.out.ret.v) = Len(last.input)

\* An align call returned a reordered table that has an undeclared column
\* and lacks a declared optional one.
C11_Witness ==
    /\ last.op = "align" /\ last.out.exc = "none"
    /\ last.out.ret.v # last.input
    /\ InputNames \ DeclNames # {}
    /\ DeclNames \ InputNames # {}

----------------------------------------------------------------------------
(* Column objects: fields.py (the module base.py imports) and columns.py.  *)
(* Python values are written as their repr: "None", "True", "42",          *)
(* "'some'", "Nullability.SOME".                                           *)

ColumnModules == {"fields", "columns"}

ColumnClasses == {"Column", "Optional", "Required"}

\* bool(value) for the values given to is_optional.
PyTruthy(value) == value = "True"

\* Nullability(value) for the three tokens.
Nullability(value) ==
    CASE value = "'none'" -> "Nullability.NONE"
      [] value = "'some'" -> "Nullability.SOME"
      [] value = "'all'" -> "Nullability.ALL"

NullabilityMembers == {"Nullability.NONE", "Nullability.SOME", "Nullability.ALL"}

\* The values a caller gives for nullable: None, the booleans, the three
\* tokens, the three members, another string and a number.
NullableValues ==
    {"None", "True", "False", "'none'", "'some'", "'all'", "'maybe'", "7"}
    \cup NullabilityMembers

DTypeValues == {"int", "str"}

DefaultValues == {"None", "42"}

\* The statement on column c raised e / completed.
Raise(c, e) == [c EXCEPT !.exc = e]
Done(c) == [c EXCEPT !.exc = "none"]

is_optional(c) == c._is_optional

is_required(c) == ~PyTruthy(is_optional(c))

has_default(c) == c.default # "None"

\* A faulty getter: an optional column is ALL whether it has a default or not.
nullable_IgnoresDefault(c) ==
    IF c._nullable = "None"
    THEN IF PyTruthy(is_optional(c)) THEN "Nullability.ALL"
         ELSE "Nullability.SOME"
    ELSE c._nullable

\* The nullable property (the same code in fields.py and columns.py).
nullable(c) ==
    IF c._nullable = "None"
    THEN IF PyTruthy(is_optional(c))
         THEN IF has_default(c) THEN "Nullability.SOME" ELSE "Nullability.ALL"
         ELSE "Nullability.SOME"
    ELSE c._nullable

\* fields.py: the nullable setter.
fields_nullable_setter(c, value) ==
    IF c._frozen THEN Raise(c, "AttributeError")
    ELSE CASE value \in {"True", "False"} ->
                 IF value = "True"
                 THEN Done([c EXCEPT !._nullable = "Nullability.SOME"])
                 ELSE Done([c EXCEPT !._nullable = "Nullability.NONE"])
           [] value \in {"'none'", "'some'", "'all'"} ->
                 Done([c EXCEPT !._nullable = Nullability(value)])
           [] value \in NullabilityMembers \cup {"None"} ->
                 Done([c EXCEPT !._nullable = value])
           [] OTHER -> Raise(c, "TypeError")

\* fields.py: Column.__init__; is_optional is False when not given.
fields_Column__init__(self, dtype, default, nullable_arg, is_optional_arg) ==
    LET s == [self EXCEPT !._frozen = FALSE, !.dtype = dtype,
                          !.default = default,
                          !._is_optional = is_optional_arg]
    IN IF is_required(s) /\ has_default(s) THEN Raise(s, "ValueError")
       ELSE LET t == fields_nullable_setter(s, nullable_arg)
            IN IF t.exc # "none" THEN t ELSE [t EXCEPT !._frozen = TRUE]

\* fields.py: Optional.__init__ and Required.__init__.
fields_Optional__init__(self, dtype, default, nullable_arg, is_optional_kw) ==
    IF is_optional_kw # "unset" THEN Raise(self, "ValueError")
    ELSE fields_Column__init__(self, dtype, default, nullable_arg, "True")

fields_Required__init__(self, dtype, default, nullable_arg, is_optional_kw) ==
    IF is_optional_kw # "unset" THEN Raise(self, "ValueError")
    ELSE fields_Column__init__(self, dtype, default, nullable_arg, "False")

\* fields.py: c.default = value and c.dtype = value are plain attributes;
\* is_optional is a property without a setter.
fields_default_assign(c, value) == Done([c EXCEPT !.default = value])

fields_is_optional_assign(c, value) == Raise(c, "AttributeError")

\* columns.py: the default setter.
columns_default_setter(c, value) ==
    IF value = "None" THEN Done([c EXCEPT !.default = "None"])
    ELSE IF is_required(c) THEN Raise(c, "ValueError")
    ELSE Done([c EXCEPT !.default = value])

\* A faulty setter: Optional and Required take any value, as Column does.
columns_is_optional_setter_Unguarded(c, value) ==
    Done([c EXCEPT !._is_optional = value])

\* columns.py: the is_optional setter of Column, Optional and Required.
columns_is_optional_setter(c, value) ==
    CASE c.cls = "Optional" ->
            IF ~PyTruthy(value) THEN Raise(c, "ValueError") ELSE Done(c)
      [] c.cls = "Required" ->
            IF PyTruthy(value) THEN Raise(c, "ValueError") ELSE Done(c)
      [] OTHER -> Done([c EXCEPT !._is_optional = value])

\* columns.py: the nullable setter.
columns_nullable_setter(c, value) ==
    CASE value \in {"True", "False"} ->
            IF value = "True"
            THEN Done([c EXCEPT !._nullable = "Nullability.ALL"])
            ELSE Done([c EXCEPT !._nullable = "Nullability.NONE"])
      [] value \in {"'none'", "'some'", "'all'"} ->
            Done([c EXCEPT !._nullable = Nullability(value)])
      [] value \in NullabilityMembers \cup {"None"} ->
            Done([c EXCEPT !._nullable = value])
      [] OTHER -> Raise(c, "TypeError")

\* columns.py: Column.__init__; is_optional is None when not given.
columns_Column__init__(self, dtype, default, nullable_arg, is_optional_arg) ==
    LET s == columns_is_optional_setter([self EXCEPT !.dtype = dtype],
                                        is_optional_arg)
    IN IF s.exc # "none" THEN s
       ELSE LET t == columns_default_setter(s, default)
            IN IF t.exc # "none" THEN t
               ELSE columns_nullable_setter(t, nullable_arg)

\* columns.py: Optional.__init__ and Required.__init__.
columns_Optional__init__(self, dtype, default, nullable_arg, is_optional_kw) ==
    IF is_optional_kw # "unset" THEN Raise(self, "ValueError")
    ELSE columns_Column__init__([self EXCEPT !._is_optional = "True"],
                                dtype, default, nullable_arg, "True")

columns_Required__init__(self, dtype, default, nullable_arg, is_optional_kw) ==
    IF is_optional_kw # "unset" THEN Raise(self, "ValueError")
    ELSE columns_Column__init__([self EXCEPT !._is_optional = "False"],
                                dtype, default, nullable_arg, "False")

\* cls(dtype, default=.., nullable=.., is_optional=..) in the given module:
\* the object when __init__ completes, no object when it raises.
Construct(module, cls, a) ==
    LET self == [NoColumn EXCEPT !.module = module, !.cls = cls, !.args = a,
                                 !.op = "__init__"]
        r == IF module = "fields"
             THEN CASE cls = "Optional" ->
                         fields_Optional__init__(self, a.dtype, a.default,
                                                 a.nullable, a.is_optional)
                    [] cls = "Required" ->
                         fields_Required__init__(self, a.dtype, a.default,
                                                 a.nullable, a.is_optional)
                    [] OTHER ->
                         fields_Column__init__(self, a.dtype, a.default,
                             a.nullable,
                             IF a.is_optional = "unset" THEN "False"
                             ELSE a.is_optional)
             ELSE CASE cls = "Optional" ->
                         columns_Optional__init__(self, a.dtype, a.default,
                                                  a.nullable, a.is_optional)
                    [] cls = "Required" ->
                         columns_Required__init__(self, a.dtype, a.default,
                                                  a.nullable, a.is_optional)
                    [] OTHER ->
                         columns_Column__init__(self, a.dtype, a.default,
                             a.nullable,
                             IF a.is_optional = "unset" THEN "None"
                             ELSE a.is_optional)
    IN IF r.exc = "none"
       THEN [r EXCEPT !.made = TRUE,
                      !.built = [dtype |-> r.dtype,
                                 is_optional |-> is_optional(r),
                                 nullable |-> nullable(r)]]
       ELSE Raise(self, r.exc)

\* Column(type_mapper(annotation)): when the mapper raises, no Column is
\* constructed and its exception leaves the function.
ColumnOfMapped(mapped) ==
    IF mapped \in MapperExceptions
    THEN Raise([NoColumn EXCEPT !.module = "columns", !.cls = "Column",
                                !.op = "__init__"], mapped)
    ELSE Construct("columns", "Column",
                   [dtype |-> mapped, default |-> "None", nullable |-> "None",
                    is_optional |-> "unset"])

\* The union branch, given the column c resolved for the member that is
\* not None: an exception of that call is passed on.
ResolvedUnion(c) ==
    IF c.exc # "none" THEN c
    ELSE IF c._nullable # "None" THEN Raise(c, "ValueError")
    ELSE columns_nullable_setter(c, "True")

\* columns.py: _resolve_annotation with type_mapper = _map_type_internal
\* of backend B.  A Column, Optional or Required annotation is the object
\* the class statement constructed, returned as it is.
_resolve_annotation(annotation, B) ==
    IF annotation.kind \in ColumnClasses
    THEN Construct("columns", annotation.kind,
                   [dtype |-> annotation.dtype, default |-> "None",
                    nullable |-> "None",
                    is_optional |-> IF annotation.kind = "Column"
                                    THEN annotation.is_optional ELSE "unset"])
    ELSE IF annotation.kind = "union"
    THEN ResolvedUnion(ColumnOfMapped(_map_type_internal(B, annotation.dtype)))
    ELSE ColumnOfMapped(_map_type_internal(B, annotation.dtype))

\* columns.py: resolve_dataclass_field; the column, or no column when a
\* statement raises.
resolve_dataclass_field(field, B) ==
    LET c == [_resolve_annotation(field.type, B) EXCEPT !.op = "resolve"]
    IN IF c.exc # "none" THEN [c EXCEPT !.made = FALSE]
       ELSE IF field.default = "MISSING" THEN c
       ELSE LET s == columns_is_optional_setter(c, "True")
                t == columns_default_setter(s, field.default)
            IN IF s.exc # "none" THEN [s EXCEPT !.made = FALSE]
               ELSE IF t.exc # "none" THEN [t EXCEPT !.made = FALSE]
               ELSE t

\* The dataclass fields a caller may resolve: of a type both mappers know
\* and of one the JSON mapper refuses.
ResolvableFields ==
    {FieldWithDefault("a", x, d) :
        x \in Annotations("int") \cup {Plain("dict"), UnionNone("dict")},
        d \in {"MISSING", "None"}}

ColumnArgs ==
    [dtype : DTypeValues, default : DefaultValues, nullable : NullableValues,
     is_optional : {"unset", "True", "False"}]

ColumnInit ==
    /\ decl = DeclReqReqOpt
    /\ backend = "json"
    /\ allow_extra_columns = TRUE
    /\ arg = [kind |-> "schema", cols |-> <<>>]
    /\ last = NoCall
    /\ column = NoColumn
    /\ klass = NoClass
    /\ rec = NoRecord
    /\ running = NoAlign

\* c = cls(dtype, ...), while the program holds no column object.
NewColumn ==
    /\ ~column.made
    /\ \E module \in ColumnModules, cls \in ColumnClasses, a \in ColumnArgs :
          column' = Construct(module, cls, a)
    /\ UNCHANGED <<decl, backend, allow_extra_columns, arg, last, klass, rec, running>>

\* c = resolve_dataclass_field(f, cls._map_type_internal), cls being
\* JSONSchema or PyArrowSchema.
ResolveField ==
    /\ ~column.made
    /\ \E f \in ResolvableFields, B \in Backends :
          column' = resolve_dataclass_field(f, B)
    /\ UNCHANGED <<decl, backend, allow_extra_columns, arg, last, klass, rec, running>>

\* c.default = value
AssignDefault ==
    /\ column.made
    /\ \E value \in DefaultValues :
          LET c == [column EXCEPT !.op = "default", !.value = value]
          IN column' = IF column.module = "fields"
                    THEN fields_default_assign(c, value)
                    ELSE columns_default_setter(c, value)
    /\ UNCHANGED <<decl, backend, allow_extra_columns, arg, last, klass, rec, running>>

\* c.is_optional = value
AssignIsOptional ==
    /\ column.made
    /\ \E value \in {"True", "False"} :
          LET c == [column EXCEPT !.op = "is_optional", !.value = value]
          IN column' = IF column.module = "fields"
                    THEN fields_is_optional_assign(c, value)
                    ELSE columns_is_optional_setter(c, value)
    /\ UNCHANGED <<decl, backend, allow_extra_columns, arg, last, klass, rec, running>>

\* c.nullable = value
AssignNullable ==
    /\ column.made
    /\ \E value \in NullableValues :
          LET c == [column EXCEPT !.op = "nullable", !.value = value]
          IN column' = IF column.module = "fields"
                    THEN fields_nullable_setter(c, value)
                    ELSE columns_nullable_setter(c, value)
    /\ UNCHANGED <<decl, backend, allow_extra_columns, arg, last, klass, rec, running>>

\* c.dtype = value: a plain attribute in both modules.
AssignDType ==
    /\ column.made
    /\ \E value \in DTypeValues :
          column' = Done([column EXCEPT !.op = "dtype", !.value = value,
                                  !.dtype = value])
    /\ UNCHANGED <<decl, backend, allow_extra_columns, arg, last, klass, rec, running>>

ColumnNext ==
    \/ NewColumn
    \/ ResolveField
    \/ AssignDefault
    \/ AssignIsOptional
    \/ AssignNullable
    \/ AssignDType

ColumnSpec == ColumnInit /\ [][ColumnNext]_vars

----------------------------------------------------------------------------
(* Properties of column objects, stated on the object the program holds    *)
(* (column), the arguments it was constructed with (column.args), its      *)
(* attributes when the constructor returned (column.built) and the latest  *)
(* statement made on it (column.op, column.value, column.exc).             *)

\* C12: constructing a Column with a default other than None while
\* is_optional is false or not given raises ValueError, and no column
\* object the program holds is ever required and carrying a default,
\* whatever assignments have completed on it.
C12_RequiredNeverHasDefault ==
    /\ (/\ column.op = "__init__" /\ column.cls = "Column"
        /\ column.args.is_optional # "True"
        /\ column.args.default # "None")
       => (~column.made /\ column.exc = "ValueError")
    /\ column.made => ~(is_required(column) /\ has_default(column))

\* C13: an assignment to nullable, dtype or is_optional of a constructed
\* column raises, and the three attributes are as the constructor left them.
C13_FrozenAfterConstruction ==
    (column.made /\ column.op \in {"nullable", "dtype", "is_optional"}) =>
        /\ column.exc # "none"
        /\ nullable(column) = column.built.nullable
        /\ column.dtype = column.built.dtype
        /\ is_optional(column) = column.built.is_optional

\* The member the claim gives for an explicit nullable value.
ExplicitNullability(value) ==
    CASE value \in {"True", "'all'", "Nullability.ALL"} -> "Nullability.ALL"
      [] value \in {"False", "'none'", "Nullability.NONE"} -> "Nullability.NONE"
      [] value \in {"'some'", "Nullability.SOME"} -> "Nullability.SOME"

\* The same constructor call without the nullable argument returns a column.
ValidWithoutNullable ==
    Construct(column.module, column.cls,
              [column.args EXCEPT !.nullable = "None"]).made

\* C14: a constructor given an explicit nullable resolves True to ALL,
\* False to NONE, a token or a member to that member, and raises TypeError
\* for any other value; SOME never results from a boolean.
C14_ExplicitNullable ==
    (/\ column.op = "__init__" /\ column.args.nullable # "None"
     /\ ValidWithoutNullable) =>
        IF column.args.nullable \in {"'maybe'", "7"}
        THEN ~column.made /\ column.exc = "TypeError"
        ELSE /\ column.made
             /\ nullable(column) = ExplicitNullability(column.args.nullable)

\* C15: a column with no explicit nullability is SOME when optional with a
\* default, ALL when optional without one and SOME when required; a column
\* with an explicit nullability has that one.
C15_DerivedNullable ==
    column.made =>
        nullable(column) =
            IF column._nullable # "None" THEN column._nullable
            ELSE IF column._is_optional = "True" /\ column.default # "None"
            THEN "Nullability.SOME"
            ELSE IF column._is_optional = "True" THEN "Nullability.ALL"
            ELSE "Nullability.SOME"

\* An optional column was constructed with a default and no nullable.
C15_Witness ==
    /\ column.made /\ column.op = "__init__"
    /\ column.args.nullable = "None" /\ column.args.default = "42"
    /\ column._is_optional = "True"
    /\ nullable(column) = "Nullability.SOME"

\* C16: an Optional column has is_optional true and a Required column has
\* it false, when constructed and after every later statement; a
\* constructor of either given is_optional raises ValueError and returns
\* no column.
C16_VariantOptionality ==
    /\ (column.made /\ column.cls = "Optional") => is_optional(column) = "True"
    /\ (column.made /\ column.cls = "Required") => is_optional(column) = "False"
    /\ (/\ column.op = "__init__" /\ column.cls \in {"Optional", "Required"}
        /\ column.args.is_optional # "unset")
       => (~column.made /\ column.exc = "ValueError")

\* An assignment of False to is_optional of an Optional column of
\* columns.py was rejected.
C16_Witness ==
    /\ column.made /\ column.cls = "Optional" /\ column.module = "columns"
    /\ column.op = "is_optional" /\ column.value = "False"
    /\ column.exc = "ValueError"

----------------------------------------------------------------------------
(* Properties of the views of a declaration.                               *)

\* C17: required_columns() and optional_columns() list their fields in
\* declaration order and share no name, and columns() is the required
\* names followed by the optional names, each declared name exactly once.
C17_DeclarationViews ==
    LET req == required_columns(decl)
        opt == optional_columns(decl)
        all == columns(decl)
    IN /\ InDeclOrder(req) /\ InDeclOrder(opt)
       /\ Range(req) = RequiredNames
       /\ Range(req) \cap Range(opt) = {}
       /\ all = req \o opt
       /\ Range(all) = DeclNames
       /\ Len(all) = Len(decl)
       /\ \A i, j \in 1..Len(all) : all[i] = all[j] => i = j

\* The views of a declaration whose first field is optional were used by a
\* validate call that found a required column missing.
C17_Witness ==
    /\ decl # DeclEmpty
    /\ decl[1].type.kind # "plain"
    /\ columns(decl) # NamesOf(decl)
    /\ Len(optional_columns(decl)) = 2
    /\ last.op = "validate" /\ Truthy(last.out.missing_req_cols)

----------------------------------------------------------------------------
(* Schema subclasses: the class statement (SchemaMeta.__new__) and the     *)
(* construction of records (new_init, to_dict).                            *)

\* class D(...): a: <annotation> [= None]; b: <annotation> [= None], and
\* class D(...): pass.
ClassDeclarations ==
    {<< FieldWithDefault("a", x, dx), FieldWithDefault("b", y, dy) >> :
        x \in Annotations("int"), y \in Annotations("str"),
        dx \in {"MISSING", "None"}, dy \in {"MISSING", "None"}}
    \cup {DeclEmpty}

\* dataclass(cls): a field without a default after one with a default.
DataclassRejects(fs) ==
    \E i, j \in 1..Len(fs) :
        i < j /\ fs[i].default # "MISSING" /\ fs[j].default = "MISSING"

\* SchemaMeta.__new__: the class, or the exception the class statement
\* raises (TypeError from dataclass, ValueError or NotImplementedError from
\* map_type).  The class keeps the abstract methods its base leaves.
DefinedClass(B, fs) ==
    IF DataclassRejects(fs)
    THEN [NoClass EXCEPT !.exc = "TypeError", !.fields = fs]
    ELSE IF ClassStatementRaises(B, fs)
    THEN [NoClass EXCEPT !.exc = ClassStatementException(B, fs),
                         !.fields = fs]
    ELSE [made |-> TRUE, exc |-> "none", fields |-> fs,
          required |-> required_columns(fs),
          optional |-> optional_columns(fs),
          dtypes |-> [i \in 1..Len(fs) |-> map_type(B, fs[i])],
          abstract |-> AbstractMethods(B)]

\* The keywords a caller may pass: the declared names and two others.
Keywords == {"a", "b", "x", "y"}

\* A call cls(**kwargs): every keyword is absent, None or a value.
KeywordArgs == [Keywords -> {"absent", "None", "v"}]

Passed(kwargs) == {k \in Keywords : kwargs[k] # "absent"}

\* The dataclass __init__ over the declared keywords: the attributes, a
\* missing one taking its default; raises TypeError when it has none.
old_init(K, to_pass, kwargs) ==
    IF \E i \in 1..Len(K.fields) :
          K.fields[i].name \notin to_pass /\ K.fields[i].default = "MISSING"
    THEN [exc |-> "TypeError", dict |-> {}]
    ELSE [exc |-> "none",
          dict |-> {<< K.fields[i].name,
                       IF K.fields[i].name \in to_pass
                       THEN kwargs[K.fields[i].name]
                       ELSE K.fields[i].default >> : i \in 1..Len(K.fields)}]

\* new_init of SchemaMeta.__new__ for keyword arguments.
new_init(K, allow, kwargs) ==
    LET field_names == Range(NamesOf(K.fields))
        to_pass == Passed(kwargs) \cap field_names
        extra == Passed(kwargs) \ field_names
        r == [NoRecord EXCEPT !.kwargs = kwargs, !.allow = allow]
    IN IF ~allow /\ extra # {}
       THEN [r EXCEPT !.exc = "SchemaValidationError", !.named = extra]
       ELSE LET o == old_init(K, to_pass, kwargs)
            IN IF o.exc # "none" THEN [r EXCEPT !.exc = o.exc]
               ELSE [r EXCEPT !.made = TRUE,
                              !.dict = o.dict \cup
                                       {<<k, kwargs[k]>> : k \in extra}]

\* K(**kwargs): a class that has abstract methods left cannot be
\* instantiated, TypeError is raised before __init__ (new_init) runs.
type__call__(K, allow, kwargs) ==
    IF K.abstract # {}
    THEN [NoRecord EXCEPT !.kwargs = kwargs, !.allow = allow,
                          !.exc = "TypeError"]
    ELSE new_init(K, allow, kwargs)

\* hasattr(self, key) for a key a caller uses: an entry of __dict__ (every
\* declared field has one once __init__ has run).
hasattr(self, key) == \E e \in self.dict : e[1] = key

\* Schema.__setitem__, r[key] = value, under the value allow of the switch
\* at the call.  sets lists the calls made on the record, with what each
\* raised; an assignment makes the result of an earlier to_dict() stale.
__setitem__(self, allow, key, value) ==
    IF hasattr(self, key) \/ allow
    THEN [self EXCEPT
             !.dict = {e \in @ : e[1] # key} \cup {<<key, value>>},
             !.sets = Append(@, [key |-> key, value |-> value, exc |-> "none"]),
             !.called = FALSE, !.to_dict = {}]
    ELSE [self EXCEPT
             !.sets = Append(@, [key |-> key, value |-> value,
                                 exc |-> "SchemaValidationError"])]

\* Schema.to_dict
to_dict(self) == {e \in self.dict : e[2] # "None"}

ClassInit ==
    /\ decl = DeclEmpty
    /\ backend \in SchemaBases
    /\ allow_extra_columns \in BOOLEAN
    /\ arg = [kind |-> "schema", cols |-> <<>>]
    /\ last = NoCall
    /\ column = NoColumn
    /\ klass = NoClass
    /\ rec = NoRecord
    /\ running = NoAlign

\* class D(Schema): ..., class D(JSONSchema): ... or
\* class D(PyArrowSchema): ...
DefineClass ==
    /\ ~klass.made
    /\ \E fs \in ClassDeclarations : klass' = DefinedClass(backend, fs)
    /\ UNCHANGED <<decl, backend, allow_extra_columns, arg, last, column, rec, running>>

\* r = D(**kwargs), while the program holds no record.
NewRecord ==
    /\ klass.made
    /\ ~rec.made
    /\ \E kwargs \in KeywordArgs :
          rec' = type__call__(klass, allow_extra_columns, kwargs)
    /\ UNCHANGED <<decl, backend, allow_extra_columns, arg, last, column, klass, running>>

\* r[key] = value
SetItem ==
    /\ rec.made
    /\ Len(rec.sets) < MaxItems
    /\ \E key \in Keywords, value \in {"None", "v"} :
          rec' = __setitem__(rec, allow_extra_columns, key, value)
    /\ UNCHANGED <<decl, backend, allow_extra_columns, arg, last, column, klass, running>>

\* r.to_dict()
ToDict ==
    /\ rec.made /\ ~rec.called
    /\ rec' = [rec EXCEPT !.called = TRUE, !.to_dict = to_dict(rec)]
    /\ UNCHANGED <<decl, backend, allow_extra_columns, arg, last, column, klass, running>>

ClassNext ==
    \/ DefineClass
    \/ SetAllowExtraColumns
    \/ NewRecord
    \/ SetItem
    \/ ToDict

ClassSpec == ClassInit /\ [][ClassNext]_vars

----------------------------------------------------------------------------
(* Properties of class statements and of record construction.              *)

\* The wrapper's own is_optional: Optional is optional, Required is not,
\* a Column is what its is_optional says.
WrapperIsOptional(a) ==
    CASE a.kind = "Optional" -> TRUE
      [] a.kind = "Required" -> FALSE
      [] a.kind = "Column" -> a.is_optional = "True"

\* The field of the latest class statement is classified and typed as C18
\* says: a nullable union and a wrapper whose is_optional is true are
\* optional, and the mapped type is that of the union's member or of the
\* wrapper's dtype.
AsDeclared(i) ==
    LET f == klass.fields[i]
        optional == IF f.type.kind = "plain" THEN FALSE
                    ELSE IF f.type.kind = "union" THEN TRUE
                    ELSE WrapperIsOptional(f.type)
    IN /\ (f.name \in Range(klass.optional)) = optional
       /\ (f.name \in Range(klass.required)) = ~optional
       /\ klass.dtypes[i] = (IF backend = "json"
                              THEN PYTHON_TO_JSON(f.type.dtype)
                              ELSE PYTHON_TO_PYARROW(f.type.dtype))

\* C18: a class statement that dataclass accepts compiles; a field whose
\* type is a nullable union is optional with the mapped type of the union
\* without None, and a field declared through Column, Optional or Required
\* is optional exactly when the wrapper's is_optional is true, with the
\* mapped type of the wrapper's dtype.
C18_CompiledFields ==
    (klass.fields # <<>> /\ ~DataclassRejects(klass.fields)) =>
        /\ klass.made
        /\ \A i \in 1..Len(klass.fields) : AsDeclared(i)

\* The keywords of the latest call that the class does not declare.
ExtraKeywords == Passed(rec.kwargs) \ Range(NamesOf(klass.fields))

\* Every field without a default was passed.
RequiredPassed ==
    \A i \in 1..Len(klass.fields) :
        klass.fields[i].default = "MISSING" =>
            klass.fields[i].name \in Passed(rec.kwargs)

\* The value the record holds under keyword k: the value of the latest
\* item assignment to k that was accepted, else the value it was
\* constructed with ("absent": none).
EntryValue(k) ==
    LET done == {i \in 1..Len(rec.sets) :
                    rec.sets[i].key = k /\ rec.sets[i].exc = "none"}
    IN IF done = {} THEN rec.kwargs[k]
       ELSE rec.sets[CHOOSE i \in done : \A j \in done : j <= i].value

\* C19: a record constructed with a keyword the class does not declare is
\* refused with a SchemaValidationError naming the undeclared keywords and
\* no record is created when allow_extra_columns is false; when it is true
\* the record is created and to_dict() returns exactly the entries,
\* declared and undeclared, whose value is not None (the value an entry was
\* constructed with, or the one assigned to it since).
C19_ExtraKeywords ==
    (klass.made /\ rec.kwargs # <<>> /\ ExtraKeywords # {}) =>
        IF ~rec.allow
        THEN /\ ~rec.made /\ rec.exc = "SchemaValidationError"
             /\ rec.named = ExtraKeywords
        ELSE /\ RequiredPassed => rec.made
             /\ (rec.made /\ rec.called) =>
                    rec.to_dict =
                        {<<k, EntryValue(k)>> :
                            k \in {n \in Keywords :
                                      EntryValue(n) \notin {"absent", "None"}}}

----------------------------------------------------------------------------
(* Properties of the errors of validate and align.                         *)

\* C20: every failing validate or align call raises SchemaValidationError
\* or TableValidationError, no other exception escapes, and the error
\* carries at least one non-empty list naming the offending columns.
C20_TypedErrorsWithLists ==
    (last.op \in {"validate", "align"} /\ last.out.exc # "none") =>
        /\ last.out.exc \in {"SchemaValidationError", "TableValidationError"}
        /\ \/ Truthy(last.out.disallowed_extra_cols)
           \/ Truthy(last.out.missing_req_cols)
           \/ Truthy(last.out.mistyped_cols)

----------------------------------------------------------------------------
(* Properties of the allow_extra_columns switch.                           *)

\* The step is a validate call on a raw schema (the switch is not assigned
\* by the step, so its value at the time of the call is allow_extra_columns).
ValidateSchemaStep ==
    /\ last'.op = "validate" /\ last'.kind = "schema"
    /\ last'.input = arg'.cols
    /\ allow_extra_columns' = allow_extra_columns

\* The undeclared columns of the raw schema given to the call of the step.
StepUndeclared ==
    LET extra(n) == n \notin DeclNames
    IN SelectSeq(NamesOf(last'.input), extra)

\* The raw schema of the step is valid but for its undeclared columns.
StepOtherwiseValid ==
    /\ RequiredNames \subseteq Range(NamesOf(last'.input))
    /\ \A i \in 1..Len(last'.input) :
          last'.input[i].name \in DeclNames =>
              last'.input[i].type =
                  column_type(backend, decl, last'.input[i].name)

\* C21: allow_extra_columns is read at each validate call: in every
\* sequence of assignments to the switch and validate calls, a call on a
\* raw schema with one undeclared column and otherwise valid returns when
\* the switch is true at the call and fails with exactly that column in
\* disallowed_extra when it is false; the missing-required and mistyped
\* lists of a failing call are those of the same call under the other
\* value of the switch.
C21_SwitchReadAtCall ==
    [][ValidateSchemaStep =>
          /\ (Len(StepUndeclared) = 1 /\ StepOtherwiseValid) =>
                IF allow_extra_columns
                THEN last'.out.exc = "none"
                ELSE /\ last'.out.exc = "SchemaValidationError"
                     /\ last'.out.disallowed_extra_cols = Some(StepUndeclared)
                     /\ last'.out.missing_req_cols = Some(<<>>)
                     /\ last'.out.mistyped_cols = Some(<<>>)
          /\ LET other == validate(backend, decl, ~allow_extra_columns,
                                   [kind |-> "schema", cols |-> last'.input])
             IN (last'.out.exc # "none" /\ other.exc # "none") =>
                   /\ last'.out.missing_req_cols = other.missing_req_cols
                   /\ last'.out.mistyped_cols = other.mistyped_cols
       ]_vars

----------------------------------------------------------------------------
(* Properties relating align to validate.                                  *)

----------------------------------------------------------------------------
(* Properties of the schema a JSON-backed declaration projects.            *)

\* C23: a JSON-backed declaration accepts its own schema() under either
\* value of the switch, and schema() lists exactly required_columns() under
\* 'required', every declared column with its column_type under
\* 'properties', and the current switch under 'additionalProperties'.
C23_OwnSchemaValidates ==
    LET doc == JsonSchemaOf(decl, last.allow)
    IN (/\ backend = "json" /\ last.op = "validate" /\ last.kind = "schema"
        /\ last.input = doc.properties) =>
          /\ last.out.exc = "none"
          /\ doc.required = RequiredInDeclOrder
          /\ doc.required = required_columns(decl)
          /\ NamesOf(doc.properties) = NamesOf(decl)
          /\ \A i \in 1..Len(doc.properties) :
                doc.properties[i].type =
                    column_type("json", decl, doc.properties[i].name)
          /\ doc.additionalProperties = last.allow

\* The schema() of a declaration whose first field is optional was
\* validated with extra columns disallowed.
C23_Witness ==
    /\ backend = "json" /\ last.op = "validate" /\ last.kind = "schema"
    /\ last.input = JsonSchemaOf(decl, last.allow).properties
    /\ ~last.allow
    /\ decl # DeclEmpty
    /\ decl[1].type.kind # "plain"
    /\ last.out.exc = "none"

----------------------------------------------------------------------------
(* Two threads: one calls align on the table the caller holds, the other   *)
(* assigns the allow_extra_columns switch of the class.  align reads the   *)
(* switch twice, in validate (_disallowed_extra_cols, schema()) and in     *)
(* _align_col_order; the other thread may run between the two reads.       *)

RaceInit ==
    /\ backend \in Backends
    /\ decl \in Declarations \cup {DeclEmpty}
    /\ ~ClassStatementRaises(backend, decl)
    /\ allow_extra_columns \in BOOLEAN
    /\ arg = [kind |-> "table", cols |-> <<>>]
    /\ last = NoCall
    /\ column = NoColumn
    /\ klass = NoClass
    /\ rec = NoRecord
    /\ running = NoAlign

\* The caller appends a column to its table while no align call runs.
BuildTable ==
    /\ ~running.active
    /\ Len(arg.cols) < MaxCols
    /\ \E n \in ColNames \ Range(NamesOf(arg.cols)) :
          \E c \in ColumnsFor(backend, "table", n) :
             arg' = [arg EXCEPT !.cols = Append(@, c)]
    /\ last' = NoCall
    /\ UNCHANGED <<decl, backend, allow_extra_columns, column, klass, rec,
                   running>>

\* The aligning thread enters align and runs its try block: validate reads
\* the switch.
AlignStart ==
    /\ ~running.active
    /\ LET v == AlignValidate(backend, decl, allow_extra_columns, arg)
       IN IF v.raised
          THEN /\ last' = [op |-> "align", input |-> arg.cols,
                           kind |-> "table", allow |-> allow_extra_columns,
                           removed |-> "", again |-> "no", out |-> v.out]
               /\ running' = NoAlign
          ELSE /\ last' = NoCall
               /\ running' = [active |-> TRUE, tbl |-> arg.cols,
                              allow |-> allow_extra_columns,
                              mistyped_cols |-> v.mistyped_cols]
    /\ UNCHANGED <<decl, backend, allow_extra_columns, arg, column, klass, rec>>

\* The aligning thread runs the rest of align: _align_col_order reads the
\* switch as it is now.
AlignFinish ==
    /\ running.active
    /\ LET r == AlignReorderCast(backend, decl, allow_extra_columns,
                                 [kind |-> "table", cols |-> running.tbl],
                                 running.mistyped_cols)
       IN /\ last' = [op |-> "align", input |-> running.tbl, kind |-> "table",
                      allow |-> running.allow, removed |-> "", again |-> "no",
                      out |-> r]
          /\ arg' = IF r.exc = "none" THEN [arg EXCEPT !.cols = r.ret.v]
                    ELSE arg
    /\ running' = NoAlign
    /\ UNCHANGED <<decl, backend, allow_extra_columns, column, klass, rec>>

RaceNext ==
    \/ BuildTable
    \/ SetAllowExtraColumns
    \/ AlignStart
    \/ AlignFinish

RaceSpec == RaceInit /\ [][RaceNext]_vars

\* C22: an align call on a table with an undeclared column, run while
\* another thread assigns the switch, behaves as if the switch had one
\* value throughout: its outcome is that of align under one of the two
\* values, and the table it returns has every column of its input.
C22_AlignAtomic ==
    (last.op = "align" /\ Undeclared # <<>>) =>
        /\ \/ last.out = align(backend, decl, TRUE, LastTable)
           \/ last.out = align(backend, decl, FALSE, LastTable)
        /\ last.out.exc = "none" => InputNames \subseteq ReturnedNames

====
